---- MODULE Spec2Model ----
(***************************************************************************)
(* sphinx-tags: the build pass update_tags (clear the output directory,    *)
(* discover documents, register entries, write one page per tag and the    *)
(* overview page) and the badge-colour lookup of the tags directive.       *)
(*                                                                         *)
(* Strings are sequences of one-character strings, so that replace,        *)
(* endswith, glob matching and Python's code-point ordering are computed.  *)
(* A path is a sequence of components relative to app.srcdir.               *)
(***************************************************************************)
EXTENDS Naturals, Sequences, FiniteSets

VARIABLES
    tree,      \* source documents outside the output dir, in directory scan order
    cfg,       \* app.config: [create, ext]
    outdir,    \* srcdir/tags_output_dir: [exists, files: name -> content]
    pc,        \* position inside update_tags: "idle", "assign", "create"
    result,    \* assign_entries: the globbed paths
    i,         \* assign_entries: number of paths of result already handled
    tags,      \* assign_entries: the registry (dict in insertion order)
    pages,     \* assign_entries: the entries built so far
    j,         \* update_tags: number of tags whose page has been written
    log,       \* messages sent to logger.info
    outcome,   \* how each finished call of update_tags ended
    pre,       \* the output directory when the current/last call started
    outs,      \* the output directory at the end of each finished call
    ins,       \* the source tree and configuration at the start of each call
    edits,     \* documents deleted from the source tree so far
    colors,    \* app.config.tags_badge_colors (dict in insertion order)
    tagArg,    \* the tag handed to _get_tag_color
    color      \* what _get_tag_color returned ("none" before the call)

colorVars == <<colors, tagArg, color>>
vars == <<tree, cfg, outdir, pc, result, i, tags, pages, j, log, outcome, pre, outs,
          ins, edits, colors, tagArg, color>>

----------------------------------------------------------------------------
(* Bounds *)

\* tag names one document declares
MaxTags == 2
\* consecutive calls of update_tags
MaxPasses == 2
\* documents deleted between calls of update_tags
MaxEdits == 1
\* entries of tags_badge_colors
MaxColors == 2

----------------------------------------------------------------------------
(* Strings *)

Letters == <<"a","b","c","d","e","f","g","h","i","j","k","l","m",
             "n","o","p","q","r","s","t","u","v","w","x","y","z">>

\* Unicode code point of a character (Python compares str by code point)
Ord(c) ==
    CASE c = " " -> 32
      [] c = "*" -> 42
      [] c = "-" -> 45
      [] c = "." -> 46
      [] c = "1" -> 49
      [] c = "?" -> 63
      [] c = "_" -> 95
      [] OTHER   -> 96 + (CHOOSE k \in 1..26 : Letters[k] = c)

\* str.__lt__
StrLess(a, b) ==
    \E k \in 1..(Len(a) + 1) :
        /\ \A m \in 1..(k - 1) : m <= Len(b) /\ a[m] = b[m]
        /\ \/ k = Len(a) + 1 /\ k <= Len(b)
           \/ k <= Len(a) /\ k <= Len(b) /\ Ord(a[k]) < Ord(b[k])

\* PurePath.__lt__: the parts tuples compared, component by component
PathLess(p, q) ==
    \E k \in 1..(Len(p) + 1) :
        /\ \A m \in 1..(k - 1) : m <= Len(q) /\ p[m] = q[m]
        /\ \/ k = Len(p) + 1 /\ k <= Len(q)
           \/ k <= Len(p) /\ k <= Len(q) /\ StrLess(p[k], q[k])

\* str.endswith
EndsWith(s, suffix) ==
    /\ Len(suffix) <= Len(s)
    /\ SubSeq(s, Len(s) - Len(suffix) + 1, Len(s)) = suffix

\* name.replace(" ", "_")
ReplaceSpaces(s) == [k \in 1..Len(s) |-> IF s[k] = " " THEN "_" ELSE s[k]]

S_rst == <<"r","s","t">>
S_md == <<"m","d">>
S_txt == <<"t","x","t">>
S_ipynb == <<"i","p","y","n","b">>
Dot == <<".">>

\* the default of tags_output_dir
TagsOutputDir == <<"_","t","a","g","s">>

----------------------------------------------------------------------------
(* The inputs the model draws from *)

T_b == <<"b">>
T_a_b == <<"a"," ","b">>
T_a__b == <<"a","_","b">>

\* tag names a document may declare: two of them differ only by space/underscore
TagNames == {T_a_b, T_a__b}

\* y.rst, s/x.rst and n.txt, relative to srcdir
P_y == << <<"y",".","r","s","t">> >>
P_sx == << <<"s">>, <<"x",".","r","s","t">> >>
P_n == << <<"n",".","t","x","t">> >>
DocPaths == {P_y, P_sx, P_n}

\* the values of tags_extension
ExtLists == { <<S_rst>>, <<S_rst, S_md>>, <<S_txt, S_rst>> }

SeqsUpTo(S, n) == UNION {[1..k -> S] : k \in 0..n}

\* what the tag regex of a document's format extracts from its text
TagLists == SeqsUpTo(TagNames, MaxTags)

IsInjective(s) == \A a, b \in 1..Len(s) : s[a] = s[b] => a = b

\* the source trees: every arrangement of some of DocPaths in scan order
Trees ==
    {t \in SeqsUpTo(DocPaths \X TagLists, Cardinality(DocPaths)) :
        /\ IsInjective([k \in 1..Len(t) |-> t[k][1]])
        /\ \A k \in 1..Len(t) : t[k][1] = P_n => t[k][2] = <<>>}

----------------------------------------------------------------------------
(* Files of the output directory *)

\* the text create_file writes, up to the fixed template around it
TagPage(dialect, name, entries) ==
    [kind |-> "tag", dialect |-> dialect, name |-> name,
     entries |-> entries, lines |-> <<>>]

\* the text tagpage writes, up to the fixed template around it
OverviewPage(dialect, lines) ==
    [kind |-> "overview", dialect |-> dialect, name |-> <<>>,
     entries |-> <<>>, lines |-> lines]

\* a file no build pass wrote
OtherFile == [kind |-> "other", dialect |-> "", name |-> <<>>,
              entries |-> <<>>, lines |-> <<>>]

N_tagsindex == <<"t","a","g","s","i","n","d","e","x">>
N_k_txt == <<"k",".","t","x","t">>

\* open(name, "w").write(content): create or overwrite
WriteFile(files, name, content) ==
    [n \in DOMAIN files \cup {name} |-> IF n = name THEN content ELSE files[n]]

NoFiles == [n \in {} |-> OtherFile]

\* pages an earlier pass left for the tag "b", which no document declares now
StaleRst ==
    WriteFile(
        WriteFile(NoFiles, T_b \o Dot \o S_rst, TagPage("rst", T_b, <<P_y>>)),
        N_tagsindex \o Dot \o S_rst,
        OverviewPage("rst", << [name |-> T_b, count |-> 1, link |-> T_b \o Dot \o S_rst] >>))

StaleMd ==
    WriteFile(
        WriteFile(NoFiles, T_b \o Dot \o S_md, TagPage("md", T_b, <<P_y>>)),
        N_k_txt, OtherFile)

InitialOutdirs ==
    { [exists |-> FALSE, files |-> NoFiles],
      [exists |-> TRUE, files |-> StaleRst],
      [exists |-> TRUE, files |-> StaleMd] }

----------------------------------------------------------------------------
(* update_tags: makedirs, clearing *)

\* mutant: the removal loop tests only file.endswith("md")
IsGenerated_mdOnly(name) == EndsWith(name, S_md)

\* file.endswith("md") or file.endswith("rst")
IsGenerated(name) == EndsWith(name, S_md) \/ EndsWith(name, S_rst)

\* mutant: the removal loop is missing
ClearDir_keepAll(files) == files

\* the os.remove loop over os.listdir
ClearDir(files) == [n \in {m \in DOMAIN files : ~IsGenerated(m)} |-> files[n]]

----------------------------------------------------------------------------
(* assign_entries: glob *)

RECURSIVE SetToSeq(_)
SetToSeq(S) ==
    IF S = {} THEN <<>>
    ELSE LET x == CHOOSE y \in S : TRUE IN <<x>> \o SetToSeq(S \ {x})

\* every file under srcdir as <<path, extracted tags>>: the source documents in
\* scan order, then the files of the output directory (a generated page and a
\* file of another kind hold no tags marker)
AllFiles(t, files) ==
    t \o [k \in 1..Cardinality(DOMAIN files) |->
            << <<TagsOutputDir, SetToSeq(DOMAIN files)[k]>>, <<>> >>]

\* fnmatch of a file name against "*.<extension>"; glob's "*" skips hidden names
GlobMatch(name, extension) ==
    /\ EndsWith(name, Dot \o extension)
    /\ name[1] # "."

\* glob(f"{srcdir}/**/*.{extension}", recursive=True)
Glob(all, extension) ==
    LET Keep(f) == GlobMatch(f[1][Len(f[1])], extension)
        hits == SelectSeq(all, Keep)
    IN  [k \in 1..Len(hits) |-> hits[k][1]]

\* result.extend(glob(...)) for each configured extension
RECURSIVE GlobAll(_, _)
GlobAll(all, exts) ==
    IF exts = <<>> THEN <<>>
    ELSE Glob(all, Head(exts)) \o GlobAll(all, Tail(exts))

----------------------------------------------------------------------------
(* Entry *)

LastPart(path) == path[Len(path)]

\* the branch of Entry.__init__ on filepath.name; FALSE is the ValueError
KnownExtension(path) ==
    \/ EndsWith(LastPart(path), Dot \o S_rst)
    \/ EndsWith(LastPart(path), Dot \o S_md)
    \/ EndsWith(LastPart(path), Dot \o S_ipynb)

\* the text of the file at path, as the tag list its regex extracts
ExtractTags(all, path) ==
    LET f == CHOOSE g \in {all[k] : k \in 1..Len(all)} : g[1] = path IN f[2]

\* Entry(entrypath)
Entry(all, path) == [filepath |-> path, tags |-> ExtractTags(all, path)]

\* tag in tag_dict
HasKey(tag_dict, tag) == \E k \in 1..Len(tag_dict) : tag_dict[k].key = tag

\* Tag(name)
Tag(name) == [name |-> name, items |-> <<>>]

\* tag_dict[tag] = Tag(tag) when the key is absent
SetDefault(tag_dict, tag) ==
    IF HasKey(tag_dict, tag) THEN tag_dict
    ELSE Append(tag_dict, [key |-> tag, val |-> Tag(tag)])

\* mutant: every Tag shares one items list
AppendItem_shared(tag_dict, tag, entry) ==
    [k \in 1..Len(tag_dict) |-> [tag_dict[k] EXCEPT !.val.items = Append(@, entry)]]

\* tag_dict[tag].items.append(entry)
AppendItem(tag_dict, tag, entry) ==
    [k \in 1..Len(tag_dict) |->
        IF tag_dict[k].key = tag
        THEN [tag_dict[k] EXCEPT !.val.items = Append(@, entry)]
        ELSE tag_dict[k]]

\* Entry.assign_to_tags, from the n-th declared tag on
RECURSIVE AssignFrom(_, _, _)
AssignFrom(entry, tag_dict, n) ==
    IF n > Len(entry.tags) THEN tag_dict
    ELSE AssignFrom(entry,
                    AppendItem(SetDefault(tag_dict, entry.tags[n]), entry.tags[n], entry),
                    n + 1)

assign_to_tags(entry, tag_dict) == AssignFrom(entry, tag_dict, 1)

----------------------------------------------------------------------------
(* Tag.create_file and tagpage *)

\* "md" in extension
IsMd(extension) == \E k \in 1..Len(extension) : extension[k] = S_md

Dialect(extension) == IF IsMd(extension) THEN "md" ELSE "rst"

\* f"{self.name.replace(' ', '_')}.md" or ".rst"
PageFileName(name, extension) ==
    ReplaceSpaces(name) \o Dot \o (IF IsMd(extension) THEN S_md ELSE S_rst)

\* sorted(items, key=lambda i: i.filepath): a stable insertion sort
RECURSIVE InsertByPath(_, _)
InsertByPath(sorted, item) ==
    IF sorted = <<>> THEN <<item>>
    ELSE IF PathLess(item.filepath, sorted[Len(sorted)].filepath)
         THEN Append(InsertByPath(SubSeq(sorted, 1, Len(sorted) - 1), item),
                     sorted[Len(sorted)])
         ELSE Append(sorted, item)

RECURSIVE SortByPath(_)
SortByPath(items) ==
    IF items = <<>> THEN <<>>
    ELSE InsertByPath(SortByPath(SubSeq(items, 1, Len(items) - 1)), items[Len(items)])

\* mutant: the rst branch lists the items without sorting them
ListedItems_unsorted(items, extension) == items

\* the order in which create_file lists the items
ListedItems(items, extension) ==
    IF IsMd(extension) THEN items ELSE SortByPath(items)

\* Tag.create_file: the per-tag page written into the output directory
create_file(tag, items, extension, files) ==
    LET listed == ListedItems(items, extension)
    IN  WriteFile(files,
                  PageFileName(tag.name, extension),
                  TagPage(Dialect(extension), tag.name,
                          [k \in 1..Len(listed) |-> listed[k].filepath]))

\* sorted(tags, key=lambda t: t.name): a stable insertion sort
RECURSIVE InsertByName(_, _)
InsertByName(sorted, tag) ==
    IF sorted = <<>> THEN <<tag>>
    ELSE IF StrLess(tag.name, sorted[Len(sorted)].name)
         THEN Append(InsertByName(SubSeq(sorted, 1, Len(sorted) - 1), tag),
                     sorted[Len(sorted)])
         ELSE Append(sorted, tag)

RECURSIVE SortByName(_)
SortByName(ts) ==
    IF ts = <<>> THEN <<>>
    ELSE InsertByName(SortByName(SubSeq(ts, 1, Len(ts) - 1)), ts[Len(ts)])

\* list(tags.values())
Values(tag_dict) == [k \in 1..Len(tag_dict) |-> tag_dict[k].val]

\* mutant: tagpage lists the tags in dict order
ListedTags_unsorted(tag_dict) == Values(tag_dict)

\* the order in which tagpage lists the tags
ListedTags(tag_dict) == SortByName(Values(tag_dict))

\* one line of the overview: f"{tag.name} ({len(tag.items)}) <{link}>"
OverviewLine(tag, extension) ==
    [name |-> tag.name,
     count |-> Len(tag.items),
     link |-> IF IsMd(extension) THEN ReplaceSpaces(tag.name)
              ELSE ReplaceSpaces(tag.name) \o Dot \o S_rst]

\* tagpage: the overview page written into the output directory
tagpage(tag_dict, extension, files) ==
    LET listed == ListedTags(tag_dict)
    IN  WriteFile(files,
                  N_tagsindex \o Dot \o (IF IsMd(extension) THEN S_md ELSE S_rst),
                  OverviewPage(Dialect(extension),
                               [k \in 1..Len(listed) |-> OverviewLine(listed[k], extension)]))

\* [item for item in pages if tag.name in item.tags]
ItemsOf(tag, ps) ==
    LET Carries(item) == \E k \in 1..Len(item.tags) : item.tags[k] = tag.name
    IN  SelectSeq(ps, Carries)

----------------------------------------------------------------------------
(* update_tags, step by step *)

\* the call returns (or raises): what it leaves behind is recorded
Finish(how, dir) ==
    /\ outcome' = Append(outcome, how)
    /\ outs' = Append(outs, dir)

\* mutant: the flag is tested after the directory has been made and emptied
update_tags_disabled_late ==
    /\ pc = "idle"
    /\ Len(outcome) < MaxPasses
    /\ ~cfg.create
    /\ outdir' = [exists |-> TRUE, files |-> ClearDir(outdir.files)]
    /\ log' = Append(log, "Tags were not created")
    /\ pre' = outdir
    /\ ins' = Append(ins, <<tree, cfg>>)
    /\ Finish("disabled", outdir')
    /\ UNCHANGED <<tree, cfg, pc, result, i, tags, pages, j, edits, colorVars>>

\* tags_create_tags is False: only the log message
update_tags_disabled ==
    /\ pc = "idle"
    /\ Len(outcome) < MaxPasses
    /\ ~cfg.create
    /\ log' = Append(log, "Tags were not created")
    /\ pre' = outdir
    /\ ins' = Append(ins, <<tree, cfg>>)
    /\ Finish("disabled", outdir)
    /\ UNCHANGED <<tree, cfg, outdir, pc, result, i, tags, pages, j, edits, colorVars>>

\* tags_create_tags is True: makedirs, the removal loop, and the glob of
\* assign_entries over the tree as the removal left it
update_tags_begin ==
    /\ pc = "idle"
    /\ Len(outcome) < MaxPasses
    /\ cfg.create
    /\ pre' = outdir
    /\ outdir' = [exists |-> TRUE, files |-> ClearDir(outdir.files)]
    /\ result' = GlobAll(AllFiles(tree, outdir'.files), cfg.ext)
    /\ i' = 0
    /\ tags' = <<>>
    /\ pages' = <<>>
    /\ j' = 0
    /\ pc' = "assign"
    /\ ins' = Append(ins, <<tree, cfg>>)
    /\ UNCHANGED <<tree, cfg, log, outcome, outs, edits, colorVars>>

\* one turn of the loop of assign_entries on a supported document
assign_entries_step ==
    /\ pc = "assign"
    /\ i < Len(result)
    /\ KnownExtension(result[i + 1])
    /\ LET entry == Entry(AllFiles(tree, outdir.files), result[i + 1])
       IN  /\ tags' = assign_to_tags(entry, tags)
           /\ pages' = Append(pages, entry)
    /\ i' = i + 1
    /\ UNCHANGED <<tree, cfg, outdir, pc, result, j, log, outcome, pre, outs, ins, edits,
                   colorVars>>

\* mutant: an unsupported document is skipped and the loop goes on
assign_entries_skip ==
    /\ pc = "assign"
    /\ i < Len(result)
    /\ ~KnownExtension(result[i + 1])
    /\ i' = i + 1
    /\ UNCHANGED <<tree, cfg, outdir, pc, result, tags, pages, j, log, outcome, pre, outs,
                   ins, edits, colorVars>>

\* Entry.__init__ raises ValueError: the exception leaves update_tags
assign_entries_raise ==
    /\ pc = "assign"
    /\ i < Len(result)
    /\ ~KnownExtension(result[i + 1])
    /\ pc' = "idle"
    /\ Finish("error", outdir)
    /\ UNCHANGED <<tree, cfg, outdir, result, i, tags, pages, j, log, pre, ins, edits,
                   colorVars>>

\* assign_entries returns tags, pages
assign_entries_return ==
    /\ pc = "assign"
    /\ i = Len(result)
    /\ pc' = "create"
    /\ UNCHANGED <<tree, cfg, outdir, result, i, tags, pages, j, log, outcome, pre, outs,
                   ins, edits, colorVars>>

\* one turn of the loop over tags.values(): tag.create_file
create_file_step ==
    /\ pc = "create"
    /\ j < Len(tags)
    /\ outdir' = [outdir EXCEPT !.files =
                    create_file(tags[j + 1].val, ItemsOf(tags[j + 1].val, pages),
                                cfg.ext, outdir.files)]
    /\ j' = j + 1
    /\ UNCHANGED <<tree, cfg, pc, result, i, tags, pages, log, outcome, pre, outs, ins,
                   edits, colorVars>>

\* tagpage and the closing log message
tagpage_step ==
    /\ pc = "create"
    /\ j = Len(tags)
    /\ outdir' = [outdir EXCEPT !.files = tagpage(tags, cfg.ext, outdir.files)]
    /\ log' = Append(log, "Tags updated")
    /\ pc' = "idle"
    /\ Finish("ok", outdir')
    /\ UNCHANGED <<tree, cfg, result, i, tags, pages, j, pre, ins, edits, colorVars>>

\* between two builds the author deletes the k-th source document
remove_document ==
    /\ pc = "idle"
    /\ outcome # <<>>
    /\ Len(outcome) < MaxPasses
    /\ edits < MaxEdits
    /\ \E k \in 1..Len(tree) :
          tree' = SubSeq(tree, 1, k - 1) \o SubSeq(tree, k + 1, Len(tree))
    /\ edits' = edits + 1
    /\ UNCHANGED <<cfg, outdir, pc, result, i, tags, pages, j, log, outcome, pre, outs, ins,
                   colorVars>>

Init ==
    /\ tree \in Trees
    /\ cfg \in [create : BOOLEAN, ext : ExtLists]
    /\ outdir \in InitialOutdirs
    /\ pc = "idle"
    /\ result = <<>>
    /\ i = 0
    /\ tags = <<>>
    /\ pages = <<>>
    /\ j = 0
    /\ log = <<>>
    /\ outcome = <<>>
    /\ pre = outdir
    /\ outs = <<>>
    /\ ins = <<>>
    /\ edits = 0
    /\ colors = <<>>
    /\ tagArg = <<>>
    /\ color = "none"

Next ==
    \/ update_tags_disabled
    \/ update_tags_begin
    \/ assign_entries_step
    \/ assign_entries_raise
    \/ assign_entries_return
    \/ create_file_step
    \/ tagpage_step
    \/ remove_document

Spec == Init /\ [][Next]_vars

----------------------------------------------------------------------------
(* TagLinks._get_tag_color *)

\* fnmatch(tag, pattern) on a POSIX build: "*" any run, "?" any one character,
\* every other character of the alphabet itself
RECURSIVE fnmatch(_, _)
fnmatch(name, pat) ==
    IF pat = <<>> THEN name = <<>>
    ELSE IF Head(pat) = "*"
         THEN fnmatch(name, Tail(pat)) \/ (name # <<>> /\ fnmatch(Tail(name), pat))
         ELSE /\ name # <<>>
              /\ Head(pat) = "?" \/ Head(pat) = Head(name)
              /\ fnmatch(Tail(name), Tail(pat))

\* the loop over tag_colors.items(), from the n-th item on
RECURSIVE ColorFrom(_, _, _)
ColorFrom(tag_colors, tag, n) ==
    IF n > Len(tag_colors) THEN "primary"
    ELSE IF fnmatch(tag, tag_colors[n].pattern) THEN tag_colors[n].color
         ELSE ColorFrom(tag_colors, tag, n + 1)

\* mutant: the loop does not return at the first match, so the last match wins
RECURSIVE ColorLast(_, _, _, _)
ColorLast(tag_colors, tag, n, found) ==
    IF n > Len(tag_colors) THEN found
    ELSE ColorLast(tag_colors, tag, n + 1,
                   IF fnmatch(tag, tag_colors[n].pattern) THEN tag_colors[n].color
                   ELSE found)

get_tag_color_lastMatch(tag_colors, tag) == ColorLast(tag_colors, tag, 1, "primary")

\* TagLinks._get_tag_color
get_tag_color(tag_colors, tag) == ColorFrom(tag_colors, tag, 1)

G_rel_dash_star == <<"r","e","l","-","*">>
G_rel_star == <<"r","e","l","*">>
G_star_1 == <<"*","-","1">>
G_mis_q == <<"m","i","s","?">>
T_release_1 == <<"r","e","l","e","a","s","e","-","1">>
T_rel_1 == <<"r","e","l","-","1">>
T_misc == <<"m","i","s","c">>

Patterns == {G_rel_dash_star, G_rel_star, G_star_1, G_mis_q}
ColorNames == {"red", "blue"}
ColorTags == {T_release_1, T_rel_1, T_misc}

\* the values of tags_badge_colors: dicts, so no pattern occurs twice
ColorMaps ==
    {m \in SeqsUpTo([pattern : Patterns, color : ColorNames], MaxColors) :
        IsInjective([k \in 1..Len(m) |-> m[k].pattern])}

\* the directive resolves the badge colour of one tag
resolve_color ==
    /\ color = "none"
    /\ color' = get_tag_color(colors, tagArg)
    /\ UNCHANGED <<tree, cfg, outdir, pc, result, i, tags, pages, j, log, outcome, pre,
                   outs, ins, edits, colors, tagArg>>

InitColor ==
    /\ tree = <<>>
    /\ cfg = [create |-> FALSE, ext |-> <<S_rst>>]
    /\ outdir = [exists |-> FALSE, files |-> NoFiles]
    /\ pc = "idle"
    /\ result = <<>>
    /\ i = 0
    /\ tags = <<>>
    /\ pages = <<>>
    /\ j = 0
    /\ log = <<>>
    /\ outcome = <<>>
    /\ pre = outdir
    /\ outs = <<>>
    /\ ins = <<>>
    /\ edits = 0
    /\ colors \in ColorMaps
    /\ tagArg \in ColorTags
    /\ color = "none"

NextColor == resolve_color

SpecColor == InitColor /\ [][NextColor]_vars

----------------------------------------------------------------------------
(* Vocabulary of the properties *)

Range(f) == {f[k] : k \in 1..Len(f)}

\* the last call of update_tags has ended, and ended this way
Finished(how) == pc = "idle" /\ outcome # <<>> /\ outcome[Len(outcome)] = how

\* the source tree and the configuration the current or last call started with
LastTree == ins[Len(ins)][1]
LastExt == ins[Len(ins)][2].ext

MdConfigured == \E e \in Range(LastExt) : e = S_md

\* the source documents the glob of that call matches, as <<path, tag list>>
DiscoveredDocs ==
    {d \in Range(LastTree) : \E e \in Range(LastExt) : EndsWith(LastPart(d[1]), Dot \o e)}

\* the tag names some discovered document declares
DeclaredTags == UNION {Range(d[2]) : d \in DiscoveredDocs}

\* the paths of the discovered documents declaring t, in discovery order
RECURSIVE DeclaringInOrder(_, _)
DeclaringInOrder(paths, t) ==
    IF paths = <<>> THEN <<>>
    ELSE LET rest == DeclaringInOrder(Tail(paths), t)
         IN  IF \E d \in DiscoveredDocs : d[1] = Head(paths) /\ t \in Range(d[2])
             THEN <<Head(paths)>> \o rest
             ELSE rest

\* the per-tag pages and the overview pages lying in the output directory
TagPageNames == {n \in DOMAIN outdir.files : outdir.files[n].kind = "tag"}
OverviewNames == {n \in DOMAIN outdir.files : outdir.files[n].kind = "overview"}

\* the name of the overview page in the configured dialect
OverviewName == N_tagsindex \o Dot \o (IF MdConfigured THEN S_md ELSE S_rst)

Unsupported(path) ==
    /\ ~EndsWith(LastPart(path), <<".","r","s","t">>)
    /\ ~EndsWith(LastPart(path), <<".","m","d">>)
    /\ ~EndsWith(LastPart(path), <<".","i","p","y","n","b">>)

----------------------------------------------------------------------------
(* C1 *)

\* C1 (as claimed): after an enabled pass that completes, for every discovered
\* document D and every tag t D declares, the output directory holds the file
\* named t with spaces turned into underscores plus the dialect extension, and
\* that file lists D.
C1_EveryTagPageListsItsDocuments ==
    Finished("ok") =>
        \A d \in DiscoveredDocs : \A t \in Range(d[2]) :
            LET n == ReplaceSpaces(t) \o Dot \o (IF MdConfigured THEN S_md ELSE S_rst)
            IN  /\ n \in DOMAIN outdir.files
                /\ d[1] \in Range(outdir.files[n].entries)

----------------------------------------------------------------------------
(* C2 *)

\* C2: after an enabled pass that completes, every per-tag page in the output
\* directory (.rst or .md) is the page of a tag some discovered document
\* declares, also when an earlier pass left pages there, and every line of
\* every overview page names such a tag.
C2_NoPageForUndeclaredTag ==
    Finished("ok") =>
        /\ \A n \in DOMAIN outdir.files :
              (EndsWith(n, S_rst) \/ EndsWith(n, S_md)) =>
                  /\ outdir.files[n].kind \in {"tag", "overview"}
                  /\ outdir.files[n].kind = "tag" =>
                        outdir.files[n].name \in DeclaredTags
                  /\ \A l \in Range(outdir.files[n].lines) : l.name \in DeclaredTags
        /\ \A n \in TagPageNames : outdir.files[n].name \in DeclaredTags
        /\ \A n \in OverviewNames :
              \A l \in Range(outdir.files[n].lines) : l.name \in DeclaredTags

\* a completed pass that found the page of a tag no document declares any more
C2_Witness ==
    /\ Finished("ok")
    /\ tags # <<>>
    /\ \E n \in DOMAIN pre.files :
          /\ pre.files[n].kind = "tag"
          /\ pre.files[n].name \notin DeclaredTags

----------------------------------------------------------------------------
(* C3 *)

\* C3: when two consecutive enabled passes complete on the same source tree and
\* configuration, the output directory after the second holds exactly the files
\* with exactly the content it held after the first, and no page the first
\* pass generated is among the paths the second pass discovers.
C3_RerunIsIdempotent ==
    \A k \in 2..Len(ins) :
        (outcome[k - 1] = "ok" /\ ins[k] = ins[k - 1]) =>
            /\ (k <= Len(outcome) /\ outcome[k] = "ok") => outs[k] = outs[k - 1]
            /\ k = Len(ins) =>
                  \A r \in Range(result) :
                      ~ /\ Len(r) = 2
                        /\ r[1] = TagsOutputDir
                        /\ r[2] \in DOMAIN outs[k - 1].files
                        /\ outs[k - 1].files[r[2]].kind \in {"tag", "overview"}

\* two completed passes on unchanged input, the first of which wrote tag pages
C3_Witness ==
    /\ Len(outcome) = 2
    /\ outcome[1] = "ok"
    /\ outcome[2] = "ok"
    /\ ins[1] = ins[2]
    /\ \E n \in DOMAIN outs[1].files : outs[1].files[n].kind = "tag"
    /\ Len(result) >= 2

----------------------------------------------------------------------------
(* C4 *)

\* C4: on every per-tag page of a completed pass, when "md" is not in the
\* extension list the entries are the documents declaring the tag in ascending
\* path order, whatever the discovery order; when "md" is in the list they are
\* those documents exactly in discovery order.
C4_EntryOrderByDialect ==
    Finished("ok") =>
        \A n \in TagPageNames :
            LET page == outdir.files[n]
                es == page.entries
            IN  IF MdConfigured
                THEN es = DeclaringInOrder(result, page.name)
                ELSE /\ \A a, b \in 1..Len(es) : a < b => PathLess(es[a], es[b])
                     /\ Range(es) = Range(DeclaringInOrder(result, page.name))

\* an rst page with two entries that were discovered in descending path order
C4_Witness ==
    /\ Finished("ok")
    /\ ~MdConfigured
    /\ \E n \in TagPageNames :
          LET found == DeclaringInOrder(result, outdir.files[n].name)
          IN  /\ Len(outdir.files[n].entries) = 2
              /\ Len(found) = 2
              /\ PathLess(found[2], found[1])

\* an md page whose two entries stand in descending path order
C4_WitnessMd ==
    /\ Finished("ok")
    /\ MdConfigured
    /\ \E n \in TagPageNames :
          /\ Len(outdir.files[n].entries) = 2
          /\ PathLess(outdir.files[n].entries[2], outdir.files[n].entries[1])

----------------------------------------------------------------------------
(* C5 *)

\* C5: after a completed pass the overview page of the configured dialect is
\* there, its lines name exactly the keys of the registry (which are exactly
\* the declared tags), each once and in ascending tag-name order, in both
\* dialects and whatever the registration order; with no declared tag the page
\* is there with no line.
C5_OverviewSortedByName ==
    Finished("ok") =>
        /\ OverviewName \in DOMAIN outdir.files
        /\ LET page == outdir.files[OverviewName]
           IN  /\ page.kind = "overview"
               /\ {l.name : l \in Range(page.lines)} = {tags[k].key : k \in 1..Len(tags)}
               /\ {l.name : l \in Range(page.lines)} = DeclaredTags
               /\ Len(page.lines) = Len(tags)
               /\ \A a, b \in 1..Len(page.lines) :
                     a < b => StrLess(page.lines[a].name, page.lines[b].name)
               /\ DeclaredTags = {} => page.lines = <<>>

\* a completed pass whose registry got its tags in descending name order
C5_Witness ==
    /\ Finished("ok")
    /\ Len(tags) = 2
    /\ StrLess(tags[2].key, tags[1].key)
    /\ Len(outdir.files[OverviewName].lines) = 2

\* a completed pass with no declared tag
C5_WitnessEmpty ==
    /\ Finished("ok")
    /\ DeclaredTags = {}
    /\ outdir.files[OverviewName].lines = <<>>

----------------------------------------------------------------------------
(* C7 *)

\* C7: a call of update_tags with tags_create_tags false leaves the output
\* directory as it was (not created, no file removed or written), reads no
\* document into the registry, and adds exactly one log message.
C7_DisabledChangesNothing ==
    [][(pc = "idle" /\ ~cfg.create /\ Len(outcome') = Len(outcome) + 1) =>
            /\ outdir' = outdir
            /\ tree' = tree
            /\ result' = result
            /\ tags' = tags
            /\ pages' = pages
            /\ pc' = "idle"
            /\ Len(log') = Len(log) + 1]_vars

\* a disabled call over an output directory that holds generated pages
C7_Witness ==
    /\ Finished("disabled")
    /\ \E n \in DOMAIN outdir.files : outdir.files[n].kind = "tag"
    /\ outdir = pre

\* a disabled call where the output directory does not exist
C7_WitnessNoDir ==
    /\ Finished("disabled")
    /\ ~outdir.exists

----------------------------------------------------------------------------
(* C8 *)

\* C8: a discovered document with an extension other than .rst, .md, .ipynb
\* ends the pass with the error at that document: the pass never reaches page
\* writing with such a document among the discovered paths, the documents
\* registered are exactly those before it, and the output directory holds what
\* the removal loop left: no per-tag page and no overview page.
C8_UnknownExtensionAborts ==
    /\ (pc = "create" \/ Finished("ok")) => \A r \in Range(result) : ~Unsupported(r)
    /\ Finished("error") =>
          /\ i < Len(result)
          /\ Unsupported(result[i + 1])
          /\ \A m \in 1..i : ~Unsupported(result[m])
          /\ [m \in 1..Len(pages) |-> pages[m].filepath] = SubSeq(result, 1, i)
          /\ TagPageNames = {}
          /\ OverviewNames = {}
          /\ \A n \in DOMAIN outdir.files : n \in DOMAIN pre.files /\ outdir.files[n] = pre.files[n]

\* a pass that stopped at an unsupported document with documents still to come
C8_Witness ==
    /\ Finished("error")
    /\ i + 1 < Len(result)
    /\ \E m \in (i + 2)..Len(result) : ~Unsupported(result[m])

----------------------------------------------------------------------------
(* C9 *)

\* C9: at every moment of registration, every entry in the item list of the
\* Tag stored under key t declares t, that Tag has name t, no key occurs twice
\* and no key has an empty item list.
C9_RegistryInvariant ==
    /\ \A k \in 1..Len(tags) :
          /\ tags[k].val.name = tags[k].key
          /\ tags[k].val.items # <<>>
          /\ \A e \in Range(tags[k].val.items) : tags[k].key \in Range(e.tags)
    /\ \A a, b \in 1..Len(tags) : tags[a].key = tags[b].key => a = b

\* a registry of two tags, one of them carried by two documents
C9_Witness ==
    /\ Len(tags) = 2
    /\ \E k \in 1..2 : Len(tags[k].val.items) = 2
    /\ \E k \in 1..2 : Len(tags[k].val.items) = 1

----------------------------------------------------------------------------
(* C10 *)

\* C10 (as claimed): after a completed pass, for every tag of the registry the
\* count on its overview line equals the number of entries listed on its
\* per-tag page.
C10_OverviewCountMatchesPage ==
    Finished("ok") =>
        \A l \in Range(outdir.files[OverviewName].lines) :
            LET n == ReplaceSpaces(l.name) \o Dot \o (IF MdConfigured THEN S_md ELSE S_rst)
            IN  /\ n \in DOMAIN outdir.files
                /\ l.count = Len(outdir.files[n].entries)

----------------------------------------------------------------------------
(* C6 *)

\* the first item of the mapping whose pattern matches the tag, 0 when none does
FirstMatch ==
    IF \E k \in 1..Len(colors) : fnmatch(tagArg, colors[k].pattern)
    THEN CHOOSE k \in 1..Len(colors) :
            /\ fnmatch(tagArg, colors[k].pattern)
            /\ \A m \in 1..(k - 1) : ~fnmatch(tagArg, colors[m].pattern)
    ELSE 0

RelDashStarRed == << [pattern |-> G_rel_dash_star, color |-> "red"] >>

C6_FirstMatchWins ==
    color # "none" =>
        color = IF FirstMatch = 0 THEN "primary" ELSE colors[FirstMatch].color

\* C6 (as claimed): first match in mapping order wins, "primary" when nothing
\* matches; with {"rel-*": "red"}, "release-1" resolves to "red" and "misc" to
\* "primary".
C6_AsClaimed ==
    /\ C6_FirstMatchWins
    /\ (color # "none" /\ colors = RelDashStarRed /\ tagArg = T_release_1) => color = "red"
    /\ (color # "none" /\ colors = RelDashStarRed /\ tagArg = T_misc) => color = "primary"

\* C6 (amended): first match in mapping order wins, "primary" when nothing
\* matches; with {"rel-*": "red"}, "rel-1" resolves to "red", while "release-1"
\* (which "rel-*" does not match) and "misc" resolve to "primary".
C6_ColorResolution ==
    /\ C6_FirstMatchWins
    /\ (color # "none" /\ colors = RelDashStarRed /\ tagArg = T_rel_1) => color = "red"
    /\ (color # "none" /\ colors = RelDashStarRed /\ tagArg = T_release_1) => color = "primary"
    /\ (color # "none" /\ colors = RelDashStarRed /\ tagArg = T_misc) => color = "primary"

\* a lookup in a two-item mapping whose second item is the first that matches
C6_Witness ==
    /\ color # "none"
    /\ Len(colors) = 2
    /\ FirstMatch = 2
    /\ color = colors[2].color

\* the lookup of "release-1" in {"rel-*": "red"}
C6_WitnessRelease ==
    /\ color = "primary"
    /\ colors = RelDashStarRed
    /\ tagArg = T_release_1

====
